---- MODULE Spec2Model ----
(***************************************************************************)
(* Model of the calculator core: the arithmetic primitives of              *)
(* app/operation, the Calculation variants and the CalculationFactory      *)
(* registry of app/calculation, and the REPL driver of app/calculator.     *)
(*                                                                         *)
(* Python floats are modelled as signed rationals in lowest terms plus     *)
(* the IEEE specials (signed zero, +-inf, nan).  The operands are drawn    *)
(* from Nums, whose finite members are exactly representable doubles and   *)
(* whose results under one operation are exact terminating decimals, so    *)
(* no rounding, overflow or exponent notation occurs inside the domain.    *)
(* Python strings are TLC strings, processed character by character.       *)
(***************************************************************************)
EXTENDS Integers, Sequences, FiniteSets, TLC

VARIABLES calculations, loaded, calc, ret, operands, repl

vars == <<calculations, loaded, calc, ret, operands, repl>>

(***************************************************************************)
(* Floating-point values.                                                  *)
(***************************************************************************)
RECURSIVE GCD(_, _)
GCD(m, n) == IF n = 0 THEN m ELSE GCD(n, m % n)

\* a finite float s * n / d, in lowest terms; Fin(-1, 0, 1) is -0.0
Fin(s, n, d) == [k |-> "fin", s |-> s, n |-> n \div GCD(n, d), d |-> d \div GCD(n, d)]

Inf(s) == [k |-> "inf", s |-> s, n |-> 0, d |-> 1]

NaN == [k |-> "nan", s |-> 1, n |-> 0, d |-> 1]

\* the absent number (no return value)
NoNum == [k |-> "none", s |-> 1, n |-> 0, d |-> 1]

Zero == Fin(1, 0, 1)

One == Fin(1, 1, 1)

Neg(x) == IF x.k = "nan" THEN x ELSE [x EXCEPT !.s = 0 - x.s]

\* Python's x == 0 on floats: true of 0.0 and -0.0, false of nan
IsZero(x) == x.k = "fin" /\ x.n = 0

\* Python's x == y on floats
PyEq(x, y) ==
    /\ x.k # "nan"
    /\ y.k # "nan"
    /\ \/ x = y
       \/ IsZero(x) /\ IsZero(y)

IsInteger(x) == x.k = "fin" /\ x.d = 1

IsOddInteger(x) == IsInteger(x) /\ x.n % 2 = 1

\* the operands the model draws from
Nums ==
    { Zero, Fin(-1, 0, 1), One, Fin(1, 2, 1), Fin(-1, 2, 1), Fin(1, 5, 1),
      Fin(1, 1, 2), Inf(1), Inf(-1), NaN }

(***************************************************************************)
(* Outcome of a call: a returned number, or a raised exception.            *)
(***************************************************************************)
Return(v) == [exc |-> "", msg |-> "", num |-> v]

Raise(kind, message) == [exc |-> kind, msg |-> message, num |-> NoNum]

(***************************************************************************)
(* The float operators of the language.                                    *)
(***************************************************************************)
\* a + b
FloatAdd(a, b) ==
    IF a.k = "nan" \/ b.k = "nan" THEN NaN
    ELSE IF a.k = "inf" /\ b.k = "inf" THEN (IF a.s = b.s THEN a ELSE NaN)
    ELSE IF a.k = "inf" THEN a
    ELSE IF b.k = "inf" THEN b
    ELSE LET num == a.s * a.n * b.d + b.s * b.n * a.d
             den == a.d * b.d
         IN  IF num = 0
             THEN (IF IsZero(a) /\ IsZero(b) /\ a.s = -1 /\ b.s = -1
                   THEN Fin(-1, 0, 1) ELSE Zero)
             ELSE IF num < 0 THEN Fin(-1, 0 - num, den) ELSE Fin(1, num, den)

\* a - b
FloatSub(a, b) == FloatAdd(a, Neg(b))

\* a * b
FloatMul(a, b) ==
    IF a.k = "nan" \/ b.k = "nan" THEN NaN
    ELSE IF (a.k = "inf" /\ IsZero(b)) \/ (IsZero(a) /\ b.k = "inf") THEN NaN
    ELSE IF a.k = "inf" \/ b.k = "inf" THEN Inf(a.s * b.s)
    ELSE Fin(a.s * b.s, a.n * b.n, a.d * b.d)

\* a / b
FloatTrueDiv(a, b) ==
    IF IsZero(b) THEN Raise("ZeroDivisionError", "float division by zero")
    ELSE IF a.k = "nan" \/ b.k = "nan" THEN Return(NaN)
    ELSE IF a.k = "inf" /\ b.k = "inf" THEN Return(NaN)
    ELSE IF a.k = "inf" THEN Return(Inf(a.s * b.s))
    ELSE IF b.k = "inf" THEN Return(Fin(a.s * b.s, 0, 1))
    ELSE Return(Fin(a.s * b.s, a.n * b.d, a.d * b.n))

RECURSIVE IntPow(_, _)
IntPow(base, e) == IF e = 0 THEN 1 ELSE base * IntPow(base, e - 1)

\* a ** b
FloatPow(a, b) ==
    IF IsZero(b) THEN Return(One)
    ELSE IF a.k = "nan" THEN Return(NaN)
    ELSE IF b.k = "nan" THEN Return(IF a = One THEN One ELSE NaN)
    ELSE IF b.k = "inf" THEN
        IF a.k = "fin" /\ a.n = a.d THEN Return(One)
        ELSE IF (b.s = 1) = (a.k = "inf" \/ a.n > a.d) THEN Return(Inf(1))
        ELSE Return(Zero)
    ELSE IF a.k = "inf" THEN
        IF b.s = 1
        THEN Return(IF IsOddInteger(b) THEN a ELSE Inf(1))
        ELSE Return(IF IsOddInteger(b) THEN Fin(a.s, 0, 1) ELSE Zero)
    ELSE IF IsZero(a) THEN
        IF b.s = -1
        THEN Raise("ZeroDivisionError", "0.0 cannot be raised to a negative power")
        ELSE Return(IF IsOddInteger(b) THEN a ELSE Zero)
    ELSE IF a.s = -1 /\ ~IsInteger(b) THEN Return([NaN EXCEPT !.k = "complex"])
    ELSE IF a = One THEN Return(One)
    ELSE IF ~IsInteger(b) THEN Return([NaN EXCEPT !.k = "inexact"])
    ELSE LET sgn == IF a.s = -1 /\ IsOddInteger(b) THEN -1 ELSE 1
         IN  IF b.s = 1
             THEN Return(Fin(sgn, IntPow(a.n, b.n), IntPow(a.d, b.n)))
             ELSE Return(Fin(sgn, IntPow(a.d, b.n), IntPow(a.n, b.n)))

(***************************************************************************)
(* app/operation: the arithmetic primitives.                               *)
(***************************************************************************)
addition(a, b) == Return(FloatAdd(a, b))

subtraction(a, b) == Return(FloatSub(a, b))

multiplication(a, b) == Return(FloatMul(a, b))

\* division whose zero check raises the divide Calculation's error kind
division_zero_division_error(a, b) ==
    IF IsZero(b)
    THEN Raise("ZeroDivisionError", "Division by zero is not allowed.")
    ELSE FloatTrueDiv(a, b)

\* division with the operands exchanged
division_swapped(a, b) ==
    IF IsZero(b)
    THEN Raise("ValueError", "Division by zero is not allowed.")
    ELSE FloatTrueDiv(b, a)

division(a, b) ==
    IF IsZero(b)
    THEN Raise("ValueError", "Division by zero is not allowed.")
    ELSE FloatTrueDiv(a, b)

\* power that treats a zero base first
power_zero_base_first(a, b) == IF IsZero(a) THEN Return(Zero) ELSE FloatPow(a, b)

power(a, b) == FloatPow(a, b)

(***************************************************************************)
(* Strings.                                                                *)
(***************************************************************************)
CharAt(s, i) == SubSeq(s, i, i)

\* the lowercase of a character: the ASCII letters change, the rest is kept
LowerChar(c) ==
    CASE c = "A" -> "a" [] c = "B" -> "b" [] c = "C" -> "c" [] c = "D" -> "d"
      [] c = "E" -> "e" [] c = "F" -> "f" [] c = "G" -> "g" [] c = "H" -> "h"
      [] c = "I" -> "i" [] c = "J" -> "j" [] c = "K" -> "k" [] c = "L" -> "l"
      [] c = "M" -> "m" [] c = "N" -> "n" [] c = "O" -> "o" [] c = "P" -> "p"
      [] c = "Q" -> "q" [] c = "R" -> "r" [] c = "S" -> "s" [] c = "T" -> "t"
      [] c = "U" -> "u" [] c = "V" -> "v" [] c = "W" -> "w" [] c = "X" -> "x"
      [] c = "Y" -> "y" [] c = "Z" -> "z"
      [] OTHER -> c

\* str.lower()
RECURSIVE Lower(_)
Lower(s) ==
    IF Len(s) = 0 THEN ""
    ELSE LowerChar(CharAt(s, 1)) \o Lower(SubSeq(s, 2, Len(s)))

StartsWith(s, prefix) ==
    /\ Len(prefix) <= Len(s)
    /\ SubSeq(s, 1, Len(prefix)) = prefix

\* str.replace(old, new), for a non-empty old
RECURSIVE Replace(_, _, _)
Replace(s, old, new) ==
    IF Len(s) = 0 THEN ""
    ELSE IF StartsWith(s, old)
         THEN new \o Replace(SubSeq(s, Len(old) + 1, Len(s)), old, new)
         ELSE CharAt(s, 1) \o Replace(SubSeq(s, 2, Len(s)), old, new)

\* sep.join(parts)
RECURSIVE Join(_, _)
Join(sep, parts) ==
    IF Len(parts) = 0 THEN ""
    ELSE IF Len(parts) = 1 THEN parts[1]
    ELSE parts[1] \o sep \o Join(sep, Tail(parts))

\* sub in s
Contains(s, sub) ==
    \E i \in 1..(Len(s) + 1) : StartsWith(SubSeq(s, i, Len(s)), sub)

\* the digits after the decimal point of r / d, r < d
RECURSIVE FracDigits(_, _, _)
FracDigits(r, d, fuel) ==
    IF r = 0 \/ fuel = 0 THEN ""
    ELSE ToString((10 * r) \div d) \o FracDigits((10 * r) % d, d, fuel - 1)

\* str(x) of a float, as an f-string renders it
FloatStr(x) ==
    IF x.k = "nan" THEN "nan"
    ELSE IF x.k = "inf" THEN (IF x.s = -1 THEN "-inf" ELSE "inf")
    ELSE IF x.k = "fin" THEN
        (IF x.s = -1 THEN "-" ELSE "")
            \o ToString(x.n \div x.d) \o "."
            \o (IF x.n % x.d = 0 THEN "0" ELSE FracDigits(x.n % x.d, x.d, 17))
    ELSE "(" \o x.k \o ")"

(***************************************************************************)
(* app/calculation: the Calculation variants.                              *)
(***************************************************************************)
\* an instance built with the operands exchanged
Calculation_init_swapped(cls, a, b) == [cls |-> cls, a |-> b, b |-> a]

\* a Calculation instance: its class and the two operands
Calculation_init(cls, a, b) == [cls |-> cls, a |-> a, b |-> b]

\* no instance
NoCalc == [cls |-> "", a |-> NoNum, b |-> NoNum]

\* one invocation of a primitive of Operation
Call(fn, a, b) == [fn |-> fn, a |-> a, b |-> b]

\* the outcome r of an execute that made the primitive calls `calls`
Executed(r, calls) == [exc |-> r.exc, msg |-> r.msg, num |-> r.num, calls |-> calls]

\* AddCalculation.execute that calls the wrong primitive
AddCalculation_execute_subtracts(self) ==
    Executed(subtraction(self.a, self.b), <<Call("subtraction", self.a, self.b)>>)

AddCalculation_execute(self) ==
    Executed(addition(self.a, self.b), <<Call("addition", self.a, self.b)>>)

\* SubtractCalculation.execute that passes the operands as (b, a)
SubtractCalculation_execute_swapped(self) ==
    Executed(subtraction(self.b, self.a), <<Call("subtraction", self.b, self.a)>>)

SubtractCalculation_execute(self) ==
    Executed(subtraction(self.a, self.b), <<Call("subtraction", self.a, self.b)>>)

\* MultiplyCalculation.execute that fails when the call before it was an execute
MultiplyCalculation_execute_once(self) ==
    IF ret.op = "execute"
    THEN Executed(Raise("RuntimeError", "already executed"), <<>>)
    ELSE Executed(multiplication(self.a, self.b), <<Call("multiplication", self.a, self.b)>>)

MultiplyCalculation_execute(self) ==
    Executed(multiplication(self.a, self.b), <<Call("multiplication", self.a, self.b)>>)

\* DivideCalculation.execute without its own zero check
DivideCalculation_execute_unchecked(self) ==
    Executed(division(self.a, self.b), <<Call("division", self.a, self.b)>>)

DivideCalculation_execute(self) ==
    IF IsZero(self.b)
    THEN Executed(Raise("ZeroDivisionError", "Cannot divide by zero."), <<>>)
    ELSE Executed(division(self.a, self.b), <<Call("division", self.a, self.b)>>)

PowerCalculation_execute(self) ==
    Executed(power(self.a, self.b), <<Call("power", self.a, self.b)>>)

\* the subclass the duplicate-registration test declares
DummyCalculation_execute(self) == Executed(Return(Zero), <<>>)

\* the stand-in the REPL test returns from a patched factory
MockCalculation_execute(self) ==
    Executed(Raise("Exception", "Mock exception during execution"), <<>>)

\* self.execute(): dispatch on the class of the instance
execute(self) ==
    CASE self.cls = "AddCalculation" -> AddCalculation_execute(self)
      [] self.cls = "SubtractCalculation" -> SubtractCalculation_execute(self)
      [] self.cls = "MultiplyCalculation" -> MultiplyCalculation_execute(self)
      [] self.cls = "DivideCalculation" -> DivideCalculation_execute(self)
      [] self.cls = "PowerCalculation" -> PowerCalculation_execute(self)
      [] self.cls = "DummyCalculation" -> DummyCalculation_execute(self)
      [] self.cls = "MockCalculation" -> MockCalculation_execute(self)

\* __str__ that labels the operation with the whole class name
Calculation_str_class_label(self) ==
    LET result == execute(self)
    IN  IF result.exc # ""
        THEN [exc |-> result.exc, msg |-> result.msg, text |-> "",
              execs |-> 1, calls |-> result.calls]
        ELSE [exc |-> "", msg |-> "",
              text |-> self.cls \o ": " \o FloatStr(self.a) \o " " \o self.cls
                           \o " " \o FloatStr(self.b) \o " = " \o FloatStr(result.num),
              execs |-> 1, calls |-> result.calls]

\* Calculation.__str__; execs counts the runs of execute
Calculation_str(self) ==
    LET result == execute(self)
        operation_name == Replace(self.cls, "Calculation", "")
    IN  IF result.exc # ""
        THEN [exc |-> result.exc, msg |-> result.msg, text |-> "",
              execs |-> 1, calls |-> result.calls]
        ELSE [exc |-> "", msg |-> "",
              text |-> self.cls \o ": " \o FloatStr(self.a) \o " " \o operation_name
                           \o " " \o FloatStr(self.b) \o " = " \o FloatStr(result.num),
              execs |-> 1, calls |-> result.calls]

\* Calculation.__repr__
Calculation_repr(self) ==
    [exc |-> "", msg |-> "",
     text |-> self.cls \o "(a=" \o FloatStr(self.a) \o ", b=" \o FloatStr(self.b) \o ")",
     execs |-> 0, calls |-> <<>>]

(***************************************************************************)
(* app/calculation: the CalculationFactory.  The registry is a dict, kept  *)
(* as the sequence of its entries in insertion order.                      *)
(***************************************************************************)
Keys(reg) == [i \in 1..Len(reg) |-> reg[i].key]

HasKey(reg, key) == \E i \in 1..Len(reg) : reg[i].key = key

\* reg.get(key): the class registered under key, "" for None
DictGet(reg, key) ==
    IF HasKey(reg, key)
    THEN reg[CHOOSE i \in 1..Len(reg) : reg[i].key = key].cls
    ELSE ""

\* reg[key] = cls
DictSet(reg, key, cls) ==
    IF HasKey(reg, key)
    THEN [i \in 1..Len(reg) |-> IF reg[i].key = key THEN [key |-> key, cls |-> cls] ELSE reg[i]]
    ELSE Append(reg, [key |-> key, cls |-> cls])

\* register_calculation that keeps the letter case of the name
register_calculation_case_sensitive(reg, calculation_type, subclass) ==
    IF HasKey(reg, calculation_type)
    THEN [exc |-> "ValueError",
          msg |-> "Calculation type '" \o calculation_type \o "' is already registered.",
          reg |-> reg]
    ELSE [exc |-> "", msg |-> "", reg |-> DictSet(reg, calculation_type, subclass)]

\* register_calculation without the duplicate check
register_calculation_overwrites(reg, calculation_type, subclass) ==
    [exc |-> "", msg |-> "", reg |-> DictSet(reg, Lower(calculation_type), subclass)]

\* register_calculation that checks the lowercased name and stores the name as given
register_calculation_keeps_case(reg, calculation_type, subclass) ==
    IF HasKey(reg, Lower(calculation_type))
    THEN [exc |-> "ValueError",
          msg |-> "Calculation type '" \o calculation_type \o "' is already registered.",
          reg |-> reg]
    ELSE [exc |-> "", msg |-> "", reg |-> DictSet(reg, calculation_type, subclass)]

\* register_calculation that stores the subclass before it rejects a duplicate
register_calculation_stores_first(reg, calculation_type, subclass) ==
    IF HasKey(reg, Lower(calculation_type))
    THEN [exc |-> "ValueError",
          msg |-> "Calculation type '" \o calculation_type \o "' is already registered.",
          reg |-> DictSet(reg, Lower(calculation_type), subclass)]
    ELSE [exc |-> "", msg |-> "", reg |-> DictSet(reg, Lower(calculation_type), subclass)]

\* CalculationFactory.register_calculation(calculation_type)(subclass)
register_calculation(reg, calculation_type, subclass) ==
    LET calculation_type_lower == Lower(calculation_type)
    IN  IF HasKey(reg, calculation_type_lower)
        THEN [exc |-> "ValueError",
              msg |-> "Calculation type '" \o calculation_type \o "' is already registered.",
              reg |-> reg]
        ELSE [exc |-> "", msg |-> "",
              reg |-> DictSet(reg, calculation_type_lower, subclass)]

\* create_calculation that looks the name up as given
create_calculation_case_sensitive(reg, calculation_type, a, b) ==
    LET calculation_class == DictGet(reg, calculation_type)
    IN  IF calculation_class = ""
        THEN [exc |-> "ValueError",
              msg |-> "Unsupported calculation type: '" \o calculation_type
                          \o "'. Available types: " \o Join(", ", Keys(reg)),
              obj |-> NoCalc]
        ELSE [exc |-> "", msg |-> "",
              obj |-> Calculation_init(calculation_class, a, b)]

\* create_calculation whose error lists only the first registered name
create_calculation_first_type(reg, calculation_type, a, b) ==
    LET calculation_type_lower == Lower(calculation_type)
        calculation_class == DictGet(reg, calculation_type_lower)
    IN  IF calculation_class = ""
        THEN [exc |-> "ValueError",
              msg |-> "Unsupported calculation type: '" \o calculation_type
                          \o "'. Available types: " \o Join(", ", SubSeq(Keys(reg), 1, 1)),
              obj |-> NoCalc]
        ELSE [exc |-> "", msg |-> "",
              obj |-> Calculation_init(calculation_class, a, b)]

\* create_calculation that falls back to AddCalculation for an unknown type
create_calculation_default_add(reg, calculation_type, a, b) ==
    LET calculation_type_lower == Lower(calculation_type)
        calculation_class == DictGet(reg, calculation_type_lower)
    IN  IF calculation_class = ""
        THEN [exc |-> "", msg |-> "", obj |-> Calculation_init("AddCalculation", a, b)]
        ELSE [exc |-> "", msg |-> "", obj |-> Calculation_init(calculation_class, a, b)]

\* CalculationFactory.create_calculation(calculation_type, a, b)
create_calculation(reg, calculation_type, a, b) ==
    LET calculation_type_lower == Lower(calculation_type)
        calculation_class == DictGet(reg, calculation_type_lower)
    IN  IF calculation_class = ""
        THEN [exc |-> "ValueError",
              msg |-> "Unsupported calculation type: '" \o calculation_type
                          \o "'. Available types: " \o Join(", ", Keys(reg)),
              obj |-> NoCalc]
        ELSE [exc |-> "", msg |-> "",
              obj |-> Calculation_init(calculation_class, a, b)]

\* the decorated class definitions of the module, in source order
ModuleDecorators ==
    << [name |-> "add", cls |-> "AddCalculation"],
       [name |-> "subtract", cls |-> "SubtractCalculation"],
       [name |-> "multiply", cls |-> "MultiplyCalculation"],
       [name |-> "divide", cls |-> "DivideCalculation"],
       [name |-> "power", cls |-> "PowerCalculation"] >>

\* importing the module applies the decorators in order; a raise aborts it
RECURSIVE ImportModule(_, _)
ImportModule(reg, decorators) ==
    IF Len(decorators) = 0 THEN [exc |-> "", msg |-> "", reg |-> reg]
    ELSE LET r == register_calculation(reg, Head(decorators).name, Head(decorators).cls)
         IN  IF r.exc # "" THEN r ELSE ImportModule(r.reg, Tail(decorators))

(***************************************************************************)
(* app/calculator: the REPL driver.  Its source is not part of the         *)
(* sources at hand; it is modelled from its specified interface and from   *)
(* its tests.  Lines are matched as given: no stripping, no case folding.  *)
(***************************************************************************)
IsSpace(c) == c = " " \/ c = "\t"

\* str.split(): the maximal runs of non-blank characters
RECURSIVE SplitAcc(_, _, _)
SplitAcc(s, cur, acc) ==
    IF Len(s) = 0 THEN (IF cur = "" THEN acc ELSE Append(acc, cur))
    ELSE IF IsSpace(CharAt(s, 1))
         THEN SplitAcc(SubSeq(s, 2, Len(s)), "", IF cur = "" THEN acc ELSE Append(acc, cur))
         ELSE SplitAcc(SubSeq(s, 2, Len(s)), cur \o CharAt(s, 1), acc)

Split(s) == SplitAcc(s, "", <<>>)

\* the value of a decimal digit, -1 for any other character
Digit(c) ==
    CASE c = "0" -> 0 [] c = "1" -> 1 [] c = "2" -> 2 [] c = "3" -> 3 [] c = "4" -> 4
      [] c = "5" -> 5 [] c = "6" -> 6 [] c = "7" -> 7 [] c = "8" -> 8 [] c = "9" -> 9
      [] OTHER -> -1

IsDigits(s) == \A i \in 1..Len(s) : Digit(CharAt(s, i)) >= 0

RECURSIVE DigitsValue(_)
DigitsValue(s) ==
    IF Len(s) = 0 THEN 0
    ELSE 10 * DigitsValue(SubSeq(s, 1, Len(s) - 1)) + Digit(CharAt(s, Len(s)))

\* float() that takes an unreadable token for 0.0
ParseFloat_lenient(token) ==
    IF Len(token) > 0 /\ IsDigits(token)
    THEN [ok |-> TRUE, num |-> Fin(1, DigitsValue(token), 1)]
    ELSE [ok |-> TRUE, num |-> Zero]

\* float(token): [ok, num]; signed decimals with an optional fraction, inf
\* and nan (exponents and underscores are outside the inputs drawn)
ParseFloat(token) ==
    LET signed == StartsWith(token, "-") \/ StartsWith(token, "+")
        sgn == IF StartsWith(token, "-") THEN -1 ELSE 1
        body == IF signed THEN SubSeq(token, 2, Len(token)) ELSE token
        dots == {i \in 1..Len(body) : CharAt(body, i) = "."}
    IN  IF Lower(body) = "inf" \/ Lower(body) = "infinity" THEN [ok |-> TRUE, num |-> Inf(sgn)]
        ELSE IF Lower(body) = "nan" THEN [ok |-> TRUE, num |-> NaN]
        ELSE IF dots = {} THEN
            IF Len(body) > 0 /\ IsDigits(body)
            THEN [ok |-> TRUE, num |-> Fin(sgn, DigitsValue(body), 1)]
            ELSE [ok |-> FALSE, num |-> NoNum]
        ELSE IF Cardinality(dots) > 1 THEN [ok |-> FALSE, num |-> NoNum]
        ELSE LET p == CHOOSE i \in dots : TRUE
                 ip == SubSeq(body, 1, p - 1)
                 fp == SubSeq(body, p + 1, Len(body))
             IN  IF Len(ip) + Len(fp) > 0 /\ IsDigits(ip) /\ IsDigits(fp)
                 THEN [ok |-> TRUE,
                       num |-> Fin(sgn, DigitsValue(ip) * IntPow(10, Len(fp)) + DigitsValue(fp),
                                   IntPow(10, Len(fp)))]
                 ELSE [ok |-> FALSE, num |-> NoNum]

\* display_help(): the headers of the usage block
display_help ==
    << "Calculator REPL Help", "Usage:", "Special Commands:", "Examples:" >>

\* display_history numbering from 0
display_history_zero_indexed(history) ==
    IF Len(history) = 0 THEN << "No calculations performed yet." >>
    ELSE << "Calculation History:" >>
            \o [i \in 1..Len(history) |-> ToString(i - 1) \o ". " \o history[i]]

\* display_history(history)
display_history(history) ==
    IF Len(history) = 0 THEN << "No calculations performed yet." >>
    ELSE << "Calculation History:" >>
            \o [i \in 1..Len(history) |-> ToString(i) \o ". " \o history[i]]

\* the instance the patched factory of the REPL test returns
MockCalc == [cls |-> "MockCalculation", a |-> NoNum, b |-> NoNum]

\* a loop that gives up on a failed calculation
Handled_exits_on_error(kind, printed, history, exits, factory, obj) ==
    [kind |-> kind, printed |-> printed, history |-> history,
     exits |-> exits \/ kind \in {"zero", "error"}, factory |-> factory, obj |-> obj]

\* a loop that reads on after the exit command
Handled_never_exits(kind, printed, history, exits, factory, obj) ==
    [kind |-> kind, printed |-> printed, history |-> history, exits |-> FALSE,
     factory |-> factory, obj |-> obj]

\* what one line does: the lines printed, the history afterwards, whether the
\* process exits, whether the factory was invoked and what it returned
Handled(kind, printed, history, exits, factory, obj) ==
    [kind |-> kind, printed |-> printed, history |-> history, exits |-> exits,
     factory |-> factory, obj |-> obj]

\* one iteration of the loop of calculator() on the line user_input
calculator_line(reg, patched, history, user_input) ==
    IF user_input = "exit"
    THEN Handled("exit", << "Exiting calculator. Goodbye!" >>, history, TRUE, FALSE, NoCalc)
    ELSE IF user_input = "help"
    THEN Handled("help", display_help, history, FALSE, FALSE, NoCalc)
    ELSE IF user_input = "history"
    THEN Handled("history", display_history(history), history, FALSE, FALSE, NoCalc)
    ELSE
    LET parts == Split(user_input)
        wellformed == Len(parts) = 3 /\ ParseFloat(parts[2]).ok /\ ParseFloat(parts[3]).ok
    IN  IF ~wellformed
        THEN Handled("invalid",
                     << "Invalid input. Please follow the format: <operation> <num1> <num2>",
                        "Type 'help' for more information." >>,
                     history, FALSE, FALSE, NoCalc)
        ELSE
        LET created == IF patched
                       THEN [exc |-> "", msg |-> "", obj |-> MockCalc]
                       ELSE create_calculation(reg, parts[1], ParseFloat(parts[2]).num,
                                               ParseFloat(parts[3]).num)
        IN  IF created.exc # ""
            THEN Handled("unsupported",
                         << "Unsupported calculation type: '" \o parts[1] \o "'.",
                            "Type 'help' to see the list of supported operations." >>,
                         history, FALSE, TRUE, NoCalc)
            ELSE
            LET result == execute(created.obj)
                description == IF created.obj.cls = "MockCalculation"
                               THEN [exc |-> "", msg |-> "", text |-> "MockCalculation"]
                               ELSE Calculation_str(created.obj)
                failed == IF result.exc # "" THEN result ELSE description
            IN  IF failed.exc = "ZeroDivisionError"
                THEN Handled("zero", << "Cannot divide by zero." >>,
                             history, FALSE, TRUE, created.obj)
                ELSE IF failed.exc # ""
                THEN Handled("error",
                             << "An error occurred during calculation: " \o failed.msg,
                                "Please try again." >>,
                             history, FALSE, TRUE, created.obj)
                ELSE Handled("result", << "Result: " \o description.text >>,
                             Append(history, description.text), FALSE, TRUE, created.obj)

\* the REPL before calculator() is called
ReplOff ==
    [status |-> "off", patched |-> FALSE, stdin |-> <<>>, pos |-> 0, history |-> <<>>,
     output |-> <<>>, exitcode |-> -1,
     step |-> [read |-> "", line |-> "", kind |-> "", printed |-> <<>>,
               factory |-> FALSE, obj |-> NoCalc]]

(***************************************************************************)
(* Bounds and inputs.                                                      *)
(***************************************************************************)
\* registrations accepted after the import
MaxDynamic == 1

\* the names create_calculation is asked for
TypeNames ==
    { "add", "ADD", "subtract", "multiply", "divide", "Divide", "power", "POWER",
      "modulus", "sqrt" }

\* the names registered after the import, each for a DummyCalculation
RegNames == { "add", "Add", "modulus", "MODULUS", "sqrt" }

\* lines of input read by the REPL
MaxLines == 3

\* the lines typed at the REPL
Lines ==
    { "exit", "help", "history", "add 5 2", "divide 5 2", "divide 5 0",
      "power 0 -2", "modulus 2 5", "add 5", "add 1 2 3", "multiply 2 two" }

\* the input streams: every sequence of at most MaxLines lines
Streams == UNION {[1..n -> Lines] : n \in 0..MaxLines}

\* the lines of the termination runs: the exit command, a command, a
\* calculation that succeeds, one that fails, a malformed line
TerminationLines == { "exit", "history", "add 5 2", "divide 5 0", "add 5" }

\* the finite input streams of the termination runs
TerminationStreams == UNION {[1..n -> TerminationLines] : n \in 0..MaxLines}

\* the operands of the whole-process runs
SystemOperands ==
    { <<Fin(1, 5, 1), Fin(1, 2, 1)>>, <<Fin(1, 5, 1), Zero>>, <<Zero, Fin(-1, 2, 1)>> }

\* the input streams of the whole-process runs
SystemStreams ==
    { << "add 5 2", "modulus 2 5", "history" >>, << "divide 5 0", "exit" >> }

(***************************************************************************)
(* State machine.                                                          *)
(*   calculations  CalculationFactory._calculations                        *)
(*   loaded        whether app.calculation has been imported               *)
(*   calc          the instance the last create_calculation returned       *)
(*   ret           the last call: its arguments and its outcome            *)
(*   operands      the two numbers the caller passes as a and b            *)
(*   repl          the REPL: status, standard input and the lines read,    *)
(*                 history, standard output, exit code, the last step      *)
(***************************************************************************)
NoRet ==
    [op |-> "", name |-> "", cls |-> "", a |-> NoNum, b |-> NoNum,
     exc |-> "", msg |-> "", num |-> NoNum, text |-> "", execs |-> 0, calls |-> <<>>]

Init ==
    /\ calculations = <<>>
    /\ loaded = FALSE
    /\ calc = NoCalc
    /\ ret = NoRet
    /\ operands \in Nums \X Nums
    /\ repl = ReplOff

\* import app.calculation
Import ==
    /\ ~loaded
    /\ LET r == ImportModule(calculations, ModuleDecorators)
       IN  /\ calculations' = r.reg
           /\ loaded' = (r.exc = "")
           /\ ret' = [NoRet EXCEPT !.op = "import", !.exc = r.exc, !.msg = r.msg]
    /\ UNCHANGED <<calc, operands, repl>>

\* @CalculationFactory.register_calculation(name) class DummyCalculation
Register(name) ==
    /\ loaded
    /\ \/ HasKey(calculations, Lower(name))
       \/ Len(calculations) < Len(ModuleDecorators) + MaxDynamic
    /\ LET cls == "DummyCalculation"
           r == register_calculation(calculations, name, cls)
       IN  /\ calculations' = r.reg
           /\ ret' = [NoRet EXCEPT !.op = "register", !.name = name, !.cls = cls,
                                   !.exc = r.exc, !.msg = r.msg]
    /\ UNCHANGED <<loaded, calc, operands, repl>>

\* calc = CalculationFactory.create_calculation(name, a, b)
Create(name) ==
    /\ loaded
    /\ LET a == operands[1]
           b == operands[2]
           r == create_calculation(calculations, name, a, b)
       IN  /\ calc' = r.obj
           /\ ret' = [NoRet EXCEPT !.op = "create", !.name = name, !.a = a, !.b = b,
                                   !.exc = r.exc, !.msg = r.msg]
    /\ UNCHANGED <<calculations, loaded, operands, repl>>

\* calc.execute()
Execute ==
    /\ calc # NoCalc
    /\ LET r == execute(calc)
       IN  ret' = [NoRet EXCEPT !.op = "execute", !.exc = r.exc, !.msg = r.msg,
                                !.num = r.num, !.execs = 1, !.calls = r.calls]
    /\ UNCHANGED <<calculations, loaded, calc, operands, repl>>

\* str(calc)
Str ==
    /\ calc # NoCalc
    /\ LET r == Calculation_str(calc)
       IN  ret' = [NoRet EXCEPT !.op = "str", !.exc = r.exc, !.msg = r.msg,
                                !.text = r.text, !.execs = r.execs, !.calls = r.calls]
    /\ UNCHANGED <<calculations, loaded, calc, operands, repl>>

\* repr(calc)
Repr ==
    /\ calc # NoCalc
    /\ LET r == Calculation_repr(calc)
       IN  ret' = [NoRet EXCEPT !.op = "repr", !.exc = r.exc, !.msg = r.msg,
                                !.text = r.text, !.execs = r.execs, !.calls = r.calls]
    /\ UNCHANGED <<calculations, loaded, calc, operands, repl>>

Next ==
    \/ Import
    \/ \E name \in RegNames : Register(name)
    \/ \E name \in TypeNames : Create(name)
    \/ Execute
    \/ Str
    \/ Repr

Spec == Init /\ [][Next]_vars

(***************************************************************************)
(* The primitives of app/operation called directly.                        *)
(***************************************************************************)
Primitive(fn, a, b) ==
    CASE fn = "addition" -> addition(a, b)
      [] fn = "subtraction" -> subtraction(a, b)
      [] fn = "multiplication" -> multiplication(a, b)
      [] fn = "division" -> division(a, b)
      [] fn = "power" -> power(a, b)

CallPrimitive(fn) ==
    /\ LET a == operands[1]
           b == operands[2]
           r == Primitive(fn, a, b)
       IN  ret' = [NoRet EXCEPT !.op = fn, !.a = a, !.b = b,
                                !.exc = r.exc, !.msg = r.msg, !.num = r.num]
    /\ UNCHANGED <<calculations, loaded, calc, operands, repl>>

Addition == CallPrimitive("addition")

Subtraction == CallPrimitive("subtraction")

Multiplication == CallPrimitive("multiplication")

Division == CallPrimitive("division")

Power == CallPrimitive("power")

NextOperation ==
    \/ Addition
    \/ Subtraction
    \/ Multiplication
    \/ Division
    \/ Power

SpecOperation == Init /\ [][NextOperation]_vars

(***************************************************************************)
(* The REPL: calculator() running on an input stream, with the registry    *)
(* the import built.                                                       *)
(***************************************************************************)
InitRepl ==
    /\ calculations = ImportModule(<<>>, ModuleDecorators).reg
    /\ loaded = TRUE
    /\ calc = NoCalc
    /\ ret = NoRet
    /\ operands = <<Zero, Zero>>
    /\ \E stream \in Streams, patched \in BOOLEAN :
          repl = [ReplOff EXCEPT !.status = "running", !.stdin = stream,
                                 !.patched = patched]

\* input() returns the next line and the loop body handles it
ReplLine ==
    /\ repl.status = "running"
    /\ repl.pos < Len(repl.stdin)
    /\ LET line == repl.stdin[repl.pos + 1]
           h == calculator_line(calculations, repl.patched, repl.history, line)
       IN  repl' = [repl EXCEPT
                      !.pos = repl.pos + 1,
                      !.history = h.history,
                      !.output = repl.output \o h.printed,
                      !.status = IF h.exits THEN "exited" ELSE "running",
                      !.exitcode = IF h.exits THEN 0 ELSE repl.exitcode,
                      !.step = [read |-> "line", line |-> line, kind |-> h.kind,
                                printed |-> h.printed, factory |-> h.factory,
                                obj |-> h.obj]]
    /\ UNCHANGED <<calculations, loaded, calc, ret, operands>>

\* input() raises EOFError: standard input is exhausted
ReplEOF ==
    /\ repl.status = "running"
    /\ repl.pos = Len(repl.stdin)
    /\ LET printed == << "\nEOF detected. Exiting calculator. Goodbye!" >>
       IN  repl' = [repl EXCEPT
                      !.output = repl.output \o printed,
                      !.status = "exited",
                      !.exitcode = 0,
                      !.step = [read |-> "eof", line |-> "", kind |-> "eof",
                                printed |-> printed, factory |-> FALSE, obj |-> NoCalc]]
    /\ UNCHANGED <<calculations, loaded, calc, ret, operands>>

\* input() raises KeyboardInterrupt
ReplInterrupt ==
    /\ repl.status = "running"
    /\ LET printed == << "\nKeyboard interrupt detected. Exiting calculator. Goodbye!" >>
       IN  repl' = [repl EXCEPT
                      !.output = repl.output \o printed,
                      !.status = "exited",
                      !.exitcode = 0,
                      !.step = [read |-> "interrupt", line |-> "", kind |-> "interrupt",
                                printed |-> printed, factory |-> FALSE, obj |-> NoCalc]]
    /\ UNCHANGED <<calculations, loaded, calc, ret, operands>>

NextRepl ==
    \/ ReplLine
    \/ ReplEOF
    \/ ReplInterrupt

SpecRepl == InitRepl /\ [][NextRepl]_vars

(***************************************************************************)
(* The REPL on a finite input stream, with the progress of its loop: the   *)
(* loop is synchronous, so a read that can return a line, or raise         *)
(* EOFError, does so, and the handling of the line returns.  An interrupt  *)
(* may arrive at any read; nothing forces it to.                           *)
(***************************************************************************)
InitTermination ==
    /\ calculations = ImportModule(<<>>, ModuleDecorators).reg
    /\ loaded = TRUE
    /\ calc = NoCalc
    /\ ret = NoRet
    /\ operands = <<Zero, Zero>>
    /\ \E stream \in TerminationStreams, patched \in BOOLEAN :
          repl = [ReplOff EXCEPT !.status = "running", !.stdin = stream,
                                 !.patched = patched]

\* the read can return a line
ReplLineEnabled == repl.status = "running" /\ repl.pos < Len(repl.stdin)

\* weak fairness of ReplLine, WF_vars(ReplLine), with ENABLED <<ReplLine>>_vars
\* written out: the handling of a line is total and always advances pos, so
\* ReplLine is enabled exactly when ReplLineEnabled holds
ReplLineFair == []<>(~ReplLineEnabled) \/ []<><<ReplLine>>_vars

SpecTermination ==
    InitTermination /\ [][NextRepl]_vars /\ ReplLineFair /\ WF_vars(ReplEOF)

(***************************************************************************)
(* The whole process: the import, calls of the factory and of the          *)
(* instances, then calculator() on an input stream; after calculator() has *)
(* exited (SystemExit caught by the caller) the factory is called again.   *)
(***************************************************************************)
InitSystem ==
    /\ calculations = <<>>
    /\ loaded = FALSE
    /\ calc = NoCalc
    /\ ret = NoRet
    /\ operands \in SystemOperands
    /\ repl = ReplOff

\* calculator() is called
ReplStart ==
    /\ loaded
    /\ repl.status = "off"
    /\ \E stream \in SystemStreams, patched \in BOOLEAN :
          repl' = [ReplOff EXCEPT !.status = "running", !.stdin = stream,
                                  !.patched = patched]
    /\ UNCHANGED <<calculations, loaded, calc, ret, operands>>

\* a call from outside the REPL
Caller ==
    /\ repl.status \in {"off", "exited"}
    /\ Next

NextSystem ==
    \/ Caller
    \/ ReplStart
    \/ NextRepl

SpecSystem == InitSystem /\ [][NextSystem]_vars

(***************************************************************************)
(* Properties.                                                             *)
(***************************************************************************)
\* Python's x > 0 on floats
IsPositive(x) == x.k \in {"fin", "inf"} /\ x.s = 1 /\ ~IsZero(x)

IsFinite(x) == x.k = "fin"

\* the divide Calculation over the operands of the last call
DivideOfRet == Calculation_init("DivideCalculation", ret.a, ret.b)

\* C1: executing a divide Calculation whose second operand is 0 fails, for
\* every first operand, with ZeroDivisionError "Cannot divide by zero."; the
\* primitive division is never invoked with a zero divisor by the Calculation
\* layer, and its message never surfaces from DivideCalculation.execute.
C1_DivideByZero ==
    (ret.op = "execute" /\ calc.cls = "DivideCalculation") =>
        /\ IsZero(calc.b) =>
              /\ ret.exc = "ZeroDivisionError"
              /\ ret.msg = "Cannot divide by zero."
              /\ ret.num = NoNum
              /\ ret.calls = <<>>
        /\ \A i \in 1..Len(ret.calls) : ~IsZero(ret.calls[i].b)
        /\ ret.msg # "Division by zero is not allowed."

C1_Witness ==
    /\ ret.op = "execute"
    /\ calc = Calculation_init("DivideCalculation", Fin(1, 5, 1), Fin(-1, 0, 1))
    /\ ret.exc = "ZeroDivisionError"

\* C2 as stated: the primitive division with a zero divisor fails with the
\* same error kind as the divide Calculation does for these operands.
C2_SameErrorKind ==
    (ret.op = "division" /\ IsZero(ret.b)) =>
        /\ ret.exc # ""
        /\ ret.exc = DivideCalculation_execute(DivideOfRet).exc

\* C2 amended: the primitive division with a zero divisor fails with a
\* ValueError, the divide Calculation with a ZeroDivisionError; the two
\* layers differ in the kind of the error and in the message.
C2_DistinctErrorKinds ==
    (ret.op = "division" /\ IsZero(ret.b)) =>
        /\ ret.exc = "ValueError"
        /\ DivideCalculation_execute(DivideOfRet).exc = "ZeroDivisionError"
        /\ ret.msg # DivideCalculation_execute(DivideOfRet).msg

C2_Witness ==
    /\ ret.op = "division"
    /\ ret.a = Fin(1, 5, 1)
    /\ ret.b = Zero
    /\ ret.exc = "ValueError"

\* C3: the primitive division returns a / b for every b != 0 and never fails
\* there; for b == 0 it returns nothing and fails with the message
\* "Division by zero is not allowed."; the divide Calculation returns the
\* value of the primitive for every b != 0.
C3_Division ==
    ret.op = "division" =>
        IF IsZero(ret.b)
        THEN /\ ret.exc # ""
             /\ ret.num = NoNum
             /\ ret.msg = "Division by zero is not allowed."
        ELSE /\ ret.exc = ""
             /\ ret.num = FloatTrueDiv(ret.a, ret.b).num
             /\ (IsFinite(ret.a) /\ IsFinite(ret.b)) => PyEq(FloatMul(ret.num, ret.b), ret.a)
             /\ DivideCalculation_execute(DivideOfRet).exc = ""
             /\ DivideCalculation_execute(DivideOfRet).num = ret.num

C3_Witness ==
    /\ ret.op = "division"
    /\ ret.a = Fin(1, 5, 1)
    /\ ret.b = Fin(-1, 2, 1)
    /\ ret.num = Fin(-1, 5, 2)

\* C4: power(0, 0) == 1; power(x, 0) == 1 for every x != 0; power(0, y) == 0
\* for every y > 0; in general power(a, b) is a ** b.
C4_Power ==
    ret.op = "power" =>
        /\ (IsZero(ret.a) /\ IsZero(ret.b)) => (ret.exc = "" /\ ret.num = One)
        /\ (~PyEq(ret.a, Zero) /\ IsZero(ret.b)) => (ret.exc = "" /\ ret.num = One)
        /\ (IsZero(ret.a) /\ IsPositive(ret.b)) => (ret.exc = "" /\ PyEq(ret.num, Zero))
        /\ ret.exc = FloatPow(ret.a, ret.b).exc
        /\ ret.msg = FloatPow(ret.a, ret.b).msg
        /\ ret.num = FloatPow(ret.a, ret.b).num

C4_Witness ==
    /\ ret.op = "power"
    /\ ret.a = Zero
    /\ ret.b = Zero
    /\ ret.num = One

\* s and t differ at most in the case of their letters
SameUpToCase(s, t) ==
    /\ Len(s) = Len(t)
    /\ \A i \in 1..Len(s) : LowerChar(CharAt(s, i)) = LowerChar(CharAt(t, i))

\* C5: register fails with the duplicate-registration error exactly when
\* lowercase(name) is already a key of the registry, also when the name
\* differs from a registered one only in letter case; otherwise the class is
\* stored under lowercase(name).  The message quotes the name as given.
C5_Register ==
    [][ret'.op = "register" =>
          IF HasKey(calculations, Lower(ret'.name))
          THEN /\ ret'.exc = "ValueError"
               /\ ret'.msg = "Calculation type '" \o ret'.name \o "' is already registered."
               /\ calculations' = calculations
          ELSE /\ ret'.exc = ""
               /\ HasKey(calculations', Lower(ret'.name))
               /\ DictGet(calculations', Lower(ret'.name)) = ret'.cls
               /\ \A i \in 1..Len(calculations') :
                     calculations'[i].key # Lower(ret'.name) => calculations'[i] \in
                        {calculations[j] : j \in 1..Len(calculations)}]_vars

C5_Witness ==
    /\ ret.op = "register"
    /\ ret.name = "Add"
    /\ ret.exc = "ValueError"
    /\ ret.msg = "Calculation type 'Add' is already registered."

\* the names compared with the requested one
CaseVariantNames == TypeNames \cup {"Add", "DIVIDE", "Power", "MODULUS", "Sqrt"}

\* C6: create is case-insensitive: a name that differs from the requested one
\* only in letter case has the same outcome for the same operands: both calls
\* fail, or both return a Calculation of the same class with the same operands
\* and the same execute result.
C6_CaseInsensitiveCreate ==
    ret.op = "create" =>
        \A other \in CaseVariantNames :
            SameUpToCase(other, ret.name) =>
                LET r == create_calculation(calculations, other, ret.a, ret.b)
                IN  /\ (r.exc # "") = (ret.exc # "")
                    /\ ret.exc = "" =>
                          /\ r.obj.cls = calc.cls
                          /\ r.obj.a = calc.a
                          /\ r.obj.b = calc.b
                          /\ execute(r.obj) = execute(calc)

C6_Witness ==
    /\ ret.op = "create"
    /\ ret.name = "ADD"
    /\ ret.exc = ""
    /\ calc = Calculation_init("AddCalculation", Fin(1, 2, 1), Fin(1, 5, 1))

\* C7: create fails with the unsupported-operation error exactly when
\* lowercase(name) is not a key of the registry at the call; the message
\* contains the name as given and lists every registered name; no
\* Calculation is constructed then.
C7_Unsupported ==
    ret.op = "create" =>
        /\ (ret.exc # "") = ~HasKey(calculations, Lower(ret.name))
        /\ ret.exc # "" =>
              /\ ret.exc = "ValueError"
              /\ StartsWith(ret.msg, "Unsupported calculation type: '" \o ret.name \o "'.")
              /\ \A i \in 1..Len(calculations) : Contains(ret.msg, calculations[i].key)
              /\ ret.msg = "Unsupported calculation type: '" \o ret.name
                             \o "'. Available types: " \o Join(", ", Keys(calculations))
              /\ calc = NoCalc
        /\ ret.exc = "" => calc # NoCalc

C7_Witness ==
    /\ ret.op = "create"
    /\ ret.name = "modulus"
    /\ ret.exc = "ValueError"
    /\ ret.msg = "Unsupported calculation type: 'modulus'. Available types: add, subtract, multiply, divide, power"
    /\ calc = NoCalc

\* C8: after the startup registration 'power' is an unsupported calculation
\* type: create_calculation('power', a, b) fails with a ValueError whose
\* message contains 'power'.
C8_PowerUnsupported ==
    (ret.op = "create" /\ ret.name = "power") =>
        /\ ret.exc = "ValueError"
        /\ Contains(ret.msg, "power")

\* the registry the module body builds
StartupRegistry ==
    { [key |-> "add", cls |-> "AddCalculation"],
      [key |-> "subtract", cls |-> "SubtractCalculation"],
      [key |-> "multiply", cls |-> "MultiplyCalculation"],
      [key |-> "divide", cls |-> "DivideCalculation"],
      [key |-> "power", cls |-> "PowerCalculation"] }

OperationLabel(cls) ==
    CASE cls = "AddCalculation" -> "Add"
      [] cls = "SubtractCalculation" -> "Subtract"
      [] cls = "MultiplyCalculation" -> "Multiply"
      [] cls = "DivideCalculation" -> "Divide"
      [] cls = "PowerCalculation" -> "Power"
      [] cls = "DummyCalculation" -> "Dummy"

\* C10: the description is "<OperationName>: <a> <OperationLabel> <b> =
\* <result>", with the class name, that name without "Calculation", the
\* stored operands in order and the value execute returns; producing it runs
\* execute, so a divide Calculation with a zero divisor yields the
\* zero-division error and no description.  The debug format
\* "<OperationName>(a=<a>, b=<b>)" never runs execute and never fails.
C10_Description ==
    /\ ret.op = "str" =>
          /\ ret.execs = 1
          /\ ret.calls = execute(calc).calls
          /\ IF execute(calc).exc = ""
             THEN /\ ret.exc = ""
                  /\ ret.text = calc.cls \o ": " \o FloatStr(calc.a) \o " "
                                  \o OperationLabel(calc.cls) \o " " \o FloatStr(calc.b)
                                  \o " = " \o FloatStr(execute(calc).num)
             ELSE /\ ret.exc = execute(calc).exc
                  /\ ret.msg = execute(calc).msg
                  /\ ret.text = ""
          /\ (calc.cls = "DivideCalculation" /\ IsZero(calc.b)) =>
                /\ ret.exc = "ZeroDivisionError"
                /\ ret.msg = "Cannot divide by zero."
                /\ ret.text = ""
    /\ ret.op = "repr" =>
          /\ ret.execs = 0
          /\ ret.calls = <<>>
          /\ ret.exc = ""
          /\ ret.text = calc.cls \o "(a=" \o FloatStr(calc.a) \o ", b="
                          \o FloatStr(calc.b) \o ")"

C10_Witness ==
    /\ ret.op = "str"
    /\ ret.text = "AddCalculation: 5.0 Add 2.0 = 7.0"
    /\ ret.calls = <<Call("addition", Fin(1, 5, 1), Fin(1, 2, 1))>>

(***************************************************************************)
(* Properties of the REPL.                                                 *)
(***************************************************************************)
SpecialCommands == {"exit", "help", "history"}

\* line is <operation> <num1> <num2> with two float literals
WellFormed(line) ==
    /\ line \notin SpecialCommands
    /\ Len(Split(line)) = 3
    /\ ParseFloat(Split(line)[2]).ok
    /\ ParseFloat(Split(line)[3]).ok

\* what the factory returns for a well-formed line
LineCreated(line) ==
    IF repl.patched THEN [exc |-> "", msg |-> "", obj |-> MockCalc]
    ELSE create_calculation(calculations, Split(line)[1], ParseFloat(Split(line)[2]).num,
                            ParseFloat(Split(line)[3]).num)

\* the calculation of a well-formed line succeeds
LineSucceeds(line) ==
    /\ WellFormed(line)
    /\ LineCreated(line).exc = ""
    /\ execute(LineCreated(line).obj).exc = ""

\* the descriptions of the successful calculations among lines, in order
RECURSIVE Descriptions(_)
Descriptions(lines) ==
    IF Len(lines) = 0 THEN <<>>
    ELSE LET front == Descriptions(SubSeq(lines, 1, Len(lines) - 1))
             line == lines[Len(lines)]
         IN  IF LineSucceeds(line)
             THEN Append(front, Calculation_str(LineCreated(line).obj).text)
             ELSE front

\* the lines read so far
LinesRead == SubSeq(repl.stdin, 1, repl.pos)

IsPrefix(s, t) == Len(s) <= Len(t) /\ SubSeq(t, 1, Len(s)) = s

\* C11: a well-formed arithmetic line whose calculation succeeds prints
\* "Result: <description>" and appends that description as the new last
\* element of the history; the history only grows at its end, and after any
\* sequence of lines it is the sequence of the descriptions of the successful
\* calculations in the order entered.
C11_History ==
    /\ repl.history = Descriptions(LinesRead)
    /\ (repl.step.read = "line" /\ LineSucceeds(repl.step.line)) =>
          /\ Len(repl.history) > 0
          /\ repl.step.printed = << "Result: " \o repl.history[Len(repl.history)] >>
          /\ repl.history[Len(repl.history)]
                = Calculation_str(LineCreated(repl.step.line).obj).text
    /\ (repl.step.read = "line" /\ ~repl.patched /\ repl.step.line = "add 5 2") =>
          repl.step.printed = << "Result: AddCalculation: 5.0 Add 2.0 = 7.0" >>
    /\ (repl.step.read = "line" /\ ~repl.patched /\ repl.step.line = "divide 5 2") =>
          repl.step.printed = << "Result: DivideCalculation: 5.0 Divide 2.0 = 2.5" >>
    /\ \A i \in 1..Len(repl.history) :
          \E j \in 1..Len(repl.output) : repl.output[j] = "Result: " \o repl.history[i]

C11_Witness ==
    /\ repl.stdin = << "add 5 2", "divide 5 0", "divide 5 2" >>
    /\ repl.pos = 3
    /\ repl.history = << "AddCalculation: 5.0 Add 2.0 = 7.0",
                         "DivideCalculation: 5.0 Divide 2.0 = 2.5" >>

InvalidInputLines ==
    << "Invalid input. Please follow the format: <operation> <num1> <num2>",
       "Type 'help' for more information." >>

\* C12: a line that is not exit, help or history and is not three
\* whitespace-separated tokens with float literals second and third prints
\* the invalid-input message and the help hint, does not invoke the factory,
\* leaves the history unchanged, and the loop reads on.
C12_InvalidInput ==
    [][(repl'.step.read = "line" /\ repl'.pos = repl.pos + 1
          /\ repl'.step.line \notin SpecialCommands
          /\ \/ ~WellFormed(repl'.step.line)
             \/ repl'.step.line \in {"add 5", "add 1 2 3", "multiply 2 two"})
        => /\ repl'.step.printed = InvalidInputLines
           /\ repl'.output = repl.output \o InvalidInputLines
           /\ ~repl'.step.factory
           /\ repl'.history = repl.history
           /\ repl'.status = "running"]_vars

C12_Witness ==
    /\ repl.step.read = "line"
    /\ repl.step.line = "multiply 2 two"
    /\ repl.step.printed = InvalidInputLines
    /\ Len(repl.history) = 1
    /\ repl.status = "running"

\* the step just taken read a line of input
ReadLine == repl'.step.read = "line" /\ repl'.pos = repl.pos + 1

UnsupportedLines(name) ==
    << "Unsupported calculation type: '" \o name \o "'.",
       "Type 'help' to see the list of supported operations." >>

ErrorLines(message) ==
    << "An error occurred during calculation: " \o message, "Please try again." >>

\* what the REPL prints for a well-formed line whose calculation fails
FailureLines(line) ==
    IF LineCreated(line).exc # "" THEN UnsupportedLines(Split(line)[1])
    ELSE IF execute(LineCreated(line).obj).exc = "ZeroDivisionError"
    THEN << "Cannot divide by zero." >>
    ELSE ErrorLines(execute(LineCreated(line).obj).msg)

\* C13: a well-formed arithmetic line whose calculation fails prints the
\* message of its error kind (unsupported type and the help hint, "Cannot
\* divide by zero.", or the generic report and "Please try again."), prints
\* no "Result:" line, appends nothing to the history, and the loop reads on.
C13_FailedCalculation ==
    [][/\ (ReadLine /\ WellFormed(repl'.step.line) /\ ~LineSucceeds(repl'.step.line))
            => /\ repl'.step.printed = FailureLines(repl'.step.line)
               /\ repl'.output = repl.output \o FailureLines(repl'.step.line)
               /\ \A i \in 1..Len(repl'.step.printed) :
                     ~StartsWith(repl'.step.printed[i], "Result:")
               /\ repl'.history = repl.history
               /\ repl'.status = "running"
       /\ (ReadLine /\ ~repl.patched /\ repl'.step.line \in {"divide 5 0", "power 0 -2"})
            => /\ repl'.step.printed = << "Cannot divide by zero." >>
               /\ repl'.history = repl.history
               /\ repl'.status = "running"
       /\ (ReadLine /\ ~repl.patched /\ repl'.step.line = "modulus 2 5")
            => /\ repl'.step.printed = UnsupportedLines("modulus")
               /\ repl'.history = repl.history
               /\ repl'.status = "running"
       /\ (ReadLine /\ repl.patched /\ repl'.step.line = "add 5 2")
            => /\ repl'.step.printed = ErrorLines("Mock exception during execution")
               /\ repl'.history = repl.history
               /\ repl'.status = "running"]_vars

C13_Witness ==
    /\ ~repl.patched
    /\ repl.stdin = << "add 5 2", "modulus 2 5", "divide 5 0" >>
    /\ repl.pos = 3
    /\ repl.step.printed = << "Cannot divide by zero." >>
    /\ repl.output = << "Result: AddCalculation: 5.0 Add 2.0 = 7.0" >>
                        \o UnsupportedLines("modulus") \o << "Cannot divide by zero." >>
    /\ Len(repl.history) = 1
    /\ repl.status = "running"

\* C14: the REPL process terminates only on the exit command, an interrupt on
\* the read, or end-of-input on the read, each with its own goodbye message
\* and with exit code 0; every other line, whatever its outcome, leaves the
\* process running, and a process that has exited takes no further step.
C14_Termination ==
    [][/\ repl.status = "running"
       /\ (repl'.status = "exited") => 
            /\ repl'.exitcode = 0
            /\ \/ /\ ReadLine
                  /\ repl'.step.line = "exit"
                  /\ repl'.output = repl.output \o << "Exiting calculator. Goodbye!" >>
               \/ /\ repl'.step.read = "interrupt"
                  /\ repl'.pos = repl.pos
                  /\ repl'.output = repl.output
                        \o << "\nKeyboard interrupt detected. Exiting calculator. Goodbye!" >>
               \/ /\ repl'.step.read = "eof"
                  /\ repl'.pos = repl.pos
                  /\ repl.pos = Len(repl.stdin)
                  /\ repl'.output = repl.output
                        \o << "\nEOF detected. Exiting calculator. Goodbye!" >>
       /\ (ReadLine /\ repl'.step.line # "exit")
            => /\ repl'.status = "running"
               /\ repl'.exitcode = repl.exitcode
               /\ repl'.exitcode # 0
       /\ repl'.status \in {"running", "exited"}
       /\ (repl'.step.read = "line" /\ repl'.step.line = "exit") => repl'.status = "exited"]_vars

C14_Witness ==
    /\ repl.stdin = << "divide 5 0", "add 5", "exit" >>
    /\ repl.pos = 3
    /\ repl.status = "exited"
    /\ repl.exitcode = 0
    /\ repl.output[Len(repl.output)] = "Exiting calculator. Goodbye!"

\* the numbered listing of the descriptions
Numbered(descriptions) ==
    [i \in 1..Len(descriptions) |-> ToString(i) \o ". " \o descriptions[i]]

\* C15: the history command prints "No calculations performed yet." exactly
\* when no calculation has succeeded since the start of the session, and
\* otherwise the header "Calculation History:" followed by the descriptions
\* of the successful calculations numbered from 1 in the order performed; the
\* command leaves the history unchanged.
C15_HistoryCommand ==
    [][/\ (ReadLine /\ repl'.step.line = "history")
            => /\ repl'.history = repl.history
               /\ repl'.status = "running"
               /\ repl'.output = repl.output \o repl'.step.printed
               /\ (repl'.step.printed = << "No calculations performed yet." >>)
                     <=> (Descriptions(LinesRead) = <<>>)
               /\ Descriptions(LinesRead) # <<>>
                     => repl'.step.printed
                           = << "Calculation History:" >> \o Numbered(Descriptions(LinesRead))
       /\ (ReadLine /\ ~repl.patched
             /\ repl.stdin = << "divide 5 2", "add 5 2", "history" >> /\ repl.pos = 2)
            => repl'.step.printed
                  = << "Calculation History:",
                       "1. DivideCalculation: 5.0 Divide 2.0 = 2.5",
                       "2. AddCalculation: 5.0 Add 2.0 = 7.0" >>
       /\ (ReadLine /\ repl.stdin = << "divide 5 0", "add 5", "history" >> /\ repl.pos = 2)
            => repl'.step.printed = << "No calculations performed yet." >>]_vars

C15_Witness ==
    /\ repl.stdin = << "divide 5 2", "add 5 2", "history" >>
    /\ repl.pos = 3
    /\ ~repl.patched
    /\ repl.step.line = "history"
    /\ Len(repl.step.printed) = 3
    /\ repl.step.printed[3] = "2. AddCalculation: 5.0 Add 2.0 = 7.0"
    /\ Len(repl.history) = 2

(***************************************************************************)
(* Properties of the registry over the whole process.                      *)
(***************************************************************************)
\* the registry right after the import: the five entries in source order
StartupEntries ==
    << [key |-> "add", cls |-> "AddCalculation"],
       [key |-> "subtract", cls |-> "SubtractCalculation"],
       [key |-> "multiply", cls |-> "MultiplyCalculation"],
       [key |-> "divide", cls |-> "DivideCalculation"],
       [key |-> "power", cls |-> "PowerCalculation"] >>

\* C16 as stated: after the startup registration no operation changes the
\* registered names or the constructor a name maps to.
C16_ReadOnlyRegistry ==
    [][loaded => calculations' = calculations]_vars

\* C16: the registry is empty before the import and the import populates it
\* with the five startup entries; after that, create, execute, str, repr and
\* every REPL step leave it unchanged, a register under a name already
\* present fails and leaves it unchanged, and a register under a new name
\* appends the entry of that name; no entry is ever removed or re-bound.
C16_RegistryAfterStartup ==
    [][/\ ~loaded => calculations = <<>>
       /\ (~loaded /\ loaded') => calculations' = StartupEntries
       /\ loaded =>
            /\ IsPrefix(calculations, calculations')
            /\ (ret'.op # "register" \/ ret' = ret) => calculations' = calculations
            /\ repl' # repl => calculations' = calculations
            /\ (ret'.op = "register" /\ ret'.exc # "") => calculations' = calculations
            /\ calculations' # calculations =>
                  /\ ret'.op = "register"
                  /\ ret'.exc = ""
                  /\ ~HasKey(calculations, Lower(ret'.name))
                  /\ calculations'
                        = Append(calculations, [key |-> Lower(ret'.name), cls |-> ret'.cls])]_vars

C16_Witness ==
    /\ loaded
    /\ IsPrefix(StartupEntries, calculations)
    /\ Len(calculations) = Len(StartupEntries) + 1
    /\ calculations[Len(calculations)] = [key |-> "modulus", cls |-> "DummyCalculation"]
    /\ repl.status = "exited"
    /\ repl.pos = 3
    /\ ret.op = "register"
    /\ ret.exc = "ValueError"

\* C17: after any sequence of register and create calls every key of the
\* registry is a lowercase string, no key occurs twice (each maps to exactly
\* one constructor), and a key keeps the constructor it was first registered
\* with: a later register under the same name, in any letter case, fails
\* and does not overwrite it.
C17_RegistryKeys ==
    [][/\ \A i \in 1..Len(calculations') :
             calculations'[i].key = Lower(calculations'[i].key)
       /\ \A i, j \in 1..Len(calculations') :
             calculations'[i].key = calculations'[j].key => i = j
       /\ \A i \in 1..Len(calculations) :
             /\ HasKey(calculations', calculations[i].key)
             /\ DictGet(calculations', calculations[i].key) = calculations[i].cls
       /\ (ret'.op = "register" /\ HasKey(calculations, Lower(ret'.name)))
             => /\ ret'.exc = "ValueError"
                /\ DictGet(calculations', Lower(ret'.name))
                      = DictGet(calculations, Lower(ret'.name))
       /\ loaded' => /\ DictGet(calculations', "add") = "AddCalculation"
                     /\ DictGet(calculations', "power") = "PowerCalculation"
                     /\ ~HasKey(calculations', "MODULUS")
                     /\ ~HasKey(calculations', "Add")]_vars

C17_Witness ==
    /\ Len(calculations) = Len(StartupEntries) + 1
    /\ calculations[Len(calculations)] = [key |-> "modulus", cls |-> "DummyCalculation"]
    /\ ret.op = "register"
    /\ ret.name = "MODULUS"
    /\ ret.exc = "ValueError"
    /\ calc # NoCalc

\* the step just taken is a call of calc.execute() from outside the REPL
ExecuteStep == ret'.op = "execute" /\ repl' = repl

\* the step just taken is a call of str(calc) from outside the REPL
StrStep == ret'.op = "str" /\ repl' = repl

PrimitiveOf(cls) ==
    CASE cls = "AddCalculation" -> "addition"
      [] cls = "SubtractCalculation" -> "subtraction"
      [] cls = "MultiplyCalculation" -> "multiplication"
      [] cls = "DivideCalculation" -> "division"
      [] cls = "PowerCalculation" -> "power"
      [] OTHER -> ""

\* C19: execute of each of the five variants (divide: for a divisor that is
\* not zero) calls its own primitive, and no other, exactly once with the
\* operands in the order (a, b); the value the primitive returns is returned
\* unchanged and an error it raises reaches the caller with its kind and
\* message unchanged.
C19_Dispatch ==
    (ret.op = "execute" /\ PrimitiveOf(calc.cls) # ""
       /\ ~(calc.cls = "DivideCalculation" /\ IsZero(calc.b)))
    => /\ ret.calls = << Call(PrimitiveOf(calc.cls), calc.a, calc.b) >>
       /\ ret.calls[1].a = operands[1]
       /\ ret.calls[1].b = operands[2]
       /\ <<ret.exc, ret.msg, ret.num>>
             = << Primitive(PrimitiveOf(calc.cls), calc.a, calc.b).exc,
                  Primitive(PrimitiveOf(calc.cls), calc.a, calc.b).msg,
                  Primitive(PrimitiveOf(calc.cls), calc.a, calc.b).num >>
       /\ (calc.cls = "SubtractCalculation" /\ operands = <<Fin(1, 5, 1), Fin(1, 2, 1)>>)
             => ret.num = Fin(1, 3, 1)
       /\ (calc.cls = "PowerCalculation" /\ operands = <<Zero, Fin(-1, 2, 1)>>)
             => ret.exc = "ZeroDivisionError"

C19_Witness ==
    /\ ret.op = "execute"
    /\ calc = Calculation_init("SubtractCalculation", Fin(1, 5, 1), Fin(1, 2, 1))
    /\ ret.calls = << Call("subtraction", Fin(1, 5, 1), Fin(1, 2, 1)) >>
    /\ ret.num = Fin(1, 3, 1)

\* C20: a register that fails with the duplicate-registration error leaves
\* the registry exactly as it was; every create, failing or not, leaves the
\* registry unchanged; a successful register adds the entry of
\* lowercase(name) and leaves every other entry unchanged.
C20_Frame ==
    [][/\ (ret'.op = "register" /\ ret'.exc # "")
            => /\ ret'.exc = "ValueError"
               /\ ret'.msg = "Calculation type '" \o ret'.name \o "' is already registered."
               /\ calculations' = calculations
       /\ ret'.op = "create" => calculations' = calculations
       /\ (ret'.op = "register" /\ ret'.exc = "")
            => /\ Len(calculations') = Len(calculations) + 1
               /\ \A i \in 1..Len(calculations) : calculations'[i] = calculations[i]
               /\ calculations'[Len(calculations')]
                     = [key |-> Lower(ret'.name), cls |-> ret'.cls]
               /\ \A i \in 1..Len(calculations) : calculations[i].key # Lower(ret'.name)
       /\ (ret'.op = "register" /\ ret'.name \in {"add", "Add"})
            => /\ ret'.exc = "ValueError"
               /\ calculations' = calculations
               /\ DictGet(calculations', "add") = "AddCalculation"]_vars

C20_Witness ==
    /\ ret.op = "create"
    /\ ret.name = "sqrt"
    /\ ret.exc = "ValueError"
    /\ calculations = Append(StartupEntries, [key |-> "modulus", cls |-> "DummyCalculation"])

(***************************************************************************)
(* Termination of the REPL.                                                *)
(***************************************************************************)
\* the position of the first exit line of the stream, 0 when it has none
FirstExit(stream) ==
    IF \E i \in 1..Len(stream) : stream[i] = "exit"
    THEN CHOOSE i \in 1..Len(stream) :
            stream[i] = "exit" /\ \A j \in 1..(i - 1) : stream[j] # "exit"
    ELSE 0

\* the number of lines the loop reads when no interrupt arrives
LinesToRead(stream) == IF FirstExit(stream) > 0 THEN FirstExit(stream) ELSE Len(stream)

\* what the loop prints for lines, handled one after the other from history
RECURSIVE Transcript(_, _)
Transcript(lines, history) ==
    IF Len(lines) = 0 THEN <<>>
    ELSE LET h == calculator_line(calculations, repl.patched, history, lines[1])
         IN  h.printed \o Transcript(SubSeq(lines, 2, Len(lines)), h.history)

\* the goodbye line of the way the process ended
Goodbye ==
    CASE repl.step.read = "eof" -> << "\nEOF detected. Exiting calculator. Goodbye!" >>
      [] repl.step.read = "interrupt"
            -> << "\nKeyboard interrupt detected. Exiting calculator. Goodbye!" >>
      [] OTHER -> <<>>

\* the lines read are a prefix of the stream that stops at the first exit
\* line, each handled once and in order, and a process that has ended
\* without an interrupt has ended at the first exit line or, when the stream
\* has none, at the end of input
TerminationPoint ==
    /\ repl.pos <= LinesToRead(repl.stdin)
    /\ \A i \in 1..(repl.pos - 1) : repl.stdin[i] # "exit"
    /\ repl.history = Descriptions(LinesRead)
    /\ repl.status = "running" => repl.output = Transcript(LinesRead, <<>>)
    /\ repl.status = "exited" =>
          /\ repl.output = Transcript(LinesRead, <<>>) \o Goodbye
          /\ repl.step.read = "line" =>
                /\ repl.step.line = "exit"
                /\ repl.pos = FirstExit(repl.stdin)
                /\ repl.output[Len(repl.output)] = "Exiting calculator. Goodbye!"
          /\ repl.step.read = "eof" =>
                /\ FirstExit(repl.stdin) = 0
                /\ repl.pos = Len(repl.stdin)
          /\ repl.step.read \in {"line", "eof", "interrupt"}

\* a read takes the next line of the stream, the stream itself is never
\* changed, and once the process has exited nothing is read, printed or
\* appended to the history
ReadsInOrder ==
    /\ repl.status = "running"
    /\ repl'.stdin = repl.stdin
    /\ repl'.pos \in {repl.pos, repl.pos + 1}
    /\ repl'.pos = repl.pos + 1 =>
          /\ repl'.step.read = "line"
          /\ repl'.step.line = repl.stdin[repl.pos + 1]
          /\ repl'.step.line = "exit" <=> repl'.status = "exited"
    /\ repl'.pos = repl.pos => repl'.status = "exited"

\* C21: on every finite input stream the REPL eventually terminates; when no
\* interrupt ends it first, it terminates at the first exit line if the
\* stream has one, and no later line is read and nothing is printed or
\* appended after the goodbye message, and otherwise at end-of-input; every
\* line before that point is handled exactly once and in input order.
C21_Terminates ==
    /\ <>(repl.status = "exited")
    /\ []TerminationPoint
    /\ [][ReadsInOrder]_vars

C21_Witness ==
    /\ repl.stdin = << "add 5 2", "exit", "add 5 2" >>
    /\ repl.pos = 2
    /\ repl.status = "exited"
    /\ repl.step.line = "exit"
    /\ repl.history = << "AddCalculation: 5.0 Add 2.0 = 7.0" >>
    /\ repl.output = << "Result: AddCalculation: 5.0 Add 2.0 = 7.0",
                        "Exiting calculator. Goodbye!" >>

====
